---- MODULE Spec2Model ----
(***************************************************************************)
(* A model of src/lambda_function.py: the billing-period date range        *)
(* (DateHelper), the message formatter (BillingMessageFormatter), the      *)
(* LINE notifier (LineNotifier.send) and the orchestration                 *)
(* (CostNotificationService.notify).                                       *)
(*                                                                         *)
(* Text is modelled as a sequence of characters, each character a string:  *)
(* an ASCII character is itself, any other character is written by its     *)
(* code point ("U+FF5E").  A Python Optional is modelled as a sequence of  *)
(* length at most one: <<>> is None, <<x>> is the value x.                 *)
(***************************************************************************)
EXTENDS Integers, Sequences, FiniteSets, TLC

VARIABLES
    \* DateHelper.get_date_range and the system clock it reads
    clock, crossed, dpc, read_begin, read_today, start_date, end_date, date_range,
    \* BillingMessageFormatter.format as a function of its argument
    fpc, fmt_input, fmt_output,
    \* CostNotificationService.notify
    pc, billing_info, message, credentials, http, success, result, calls

vars ==
    <<clock, crossed, dpc, read_begin, read_today, start_date, end_date, date_range,
      fpc, fmt_input, fmt_output,
      pc, billing_info, message, credentials, http, success, result, calls>>

dateVars ==
    <<clock, crossed, dpc, read_begin, read_today, start_date, end_date, date_range>>

fmtVars ==
    <<fpc, fmt_input, fmt_output>>

notifyVars ==
    <<pc, billing_info, message, credentials, http, success, result, calls>>

(***************************************************************************)
(* Bounds of the model.                                                    *)
(***************************************************************************)
\* The clock starts on any day of the years 2023 .. 2023 + ClockYearSpan
\* (and of the century years 2000 and 2100).
ClockYearSpan == 2

\* An amount is a binary fraction with FracBits bits after the point.
FracBits == 11

\* The whole parts of the amounts range over 0 .. MaxWhole and a few more.
MaxWhole == 1

\* The formatter is given ends in the years 2024 .. 2024 + FormatYearSpan.
FormatYearSpan == 1

(***************************************************************************)
(* Text.                                                                   *)
(***************************************************************************)
None == <<>>

Some(x) == <<x>>

DigitChars == <<"0", "1", "2", "3", "4", "5", "6", "7", "8", "9">>

IsDigit(c) == \E i \in 1..10 : DigitChars[i] = c

DigitVal(c) == (CHOOSE i \in 1..10 : DigitChars[i] = c) - 1

\* "%0<w>d" of a number of at most w digits
RECURSIVE Pad(_, _)
Pad(n, w) ==
    IF w = 0 THEN <<>> ELSE Pad(n \div 10, w - 1) \o <<DigitChars[(n % 10) + 1]>>

\* "%d" of a natural number
RECURSIVE Dec(_)
Dec(n) ==
    IF n < 10 THEN <<DigitChars[n + 1]>> ELSE Dec(n \div 10) \o <<DigitChars[(n % 10) + 1]>>

\* int() of a text of digits
RECURSIVE Num(_)
Num(t) ==
    IF t = <<>> THEN 0 ELSE 10 * Num(SubSeq(t, 1, Len(t) - 1)) + DigitVal(t[Len(t)])

(***************************************************************************)
(* The datetime library, as far as the program uses it.                    *)
(***************************************************************************)
Date(y, m, d) == [year |-> y, month |-> m, day |-> d]

IsLeap(y) == y % 4 = 0 /\ (y % 100 # 0 \/ y % 400 = 0)

DaysInMonth(y, m) ==
    IF m = 2 THEN (IF IsLeap(y) THEN 29 ELSE 28)
    ELSE IF m \in {4, 6, 9, 11} THEN 30 ELSE 31

DaysBeforeYear(y) ==
    LET p == y - 1 IN p * 365 + (p \div 4) - (p \div 100) + (p \div 400)

RECURSIVE DaysBeforeMonth(_, _)
DaysBeforeMonth(y, m) ==
    IF m = 1 THEN 0 ELSE DaysBeforeMonth(y, m - 1) + DaysInMonth(y, m - 1)

\* date.toordinal: 0001-01-01 is day 1
ToOrdinal(dt) ==
    DaysBeforeYear(dt.year) + DaysBeforeMonth(dt.year, dt.month) + dt.day

\* date.fromordinal, by the library's algorithm (400-, 100-, 4- and 1-year cycles)
FromOrdinal(ord) ==
    LET n0 == ord - 1
        n400 == n0 \div 146097
        r400 == n0 % 146097
        n100 == r400 \div 36524
        r100 == r400 % 36524
        n4 == r100 \div 1461
        r4 == r100 % 1461
        n1 == r4 \div 365
        n == r4 % 365
        year == n400 * 400 + 1 + n100 * 100 + n4 * 4 + n1
    IN  IF n1 = 4 \/ n100 = 4
        THEN Date(year - 1, 12, 31)
        ELSE LET guess == (n + 50) \div 32
                 before == DaysBeforeMonth(year, guess)
                 month == IF before > n THEN guess - 1 ELSE guess
                 preceding == DaysBeforeMonth(year, month)
             IN  Date(year, month, n - preceding + 1)

\* datetime + timedelta(days): <<>> is OverflowError ("date value out of range")
AddDays(dt, days) ==
    LET ord == ToOrdinal(dt) + days
    IN  IF ord < 1 \/ ord > 3652059 THEN None ELSE Some(FromOrdinal(ord))

\* date.replace(day=1)
ReplaceDay1(dt) == Date(dt.year, dt.month, 1)

\* date.isoformat: "%04d-%02d-%02d"
IsoFormat(dt) ==
    Pad(dt.year, 4) \o <<"-">> \o Pad(dt.month, 2) \o <<"-">> \o Pad(dt.day, 2)

\* strftime('%m/%d')
StrftimeMD(dt) == Pad(dt.month, 2) \o <<"/">> \o Pad(dt.day, 2)

\* The directive %Y: four digits
MatchesYear(t) == Len(t) = 4 /\ \A i \in 1..4 : IsDigit(t[i])

\* The directive %m: 1[0-2] | 0[1-9] | [1-9]
MatchesMonth(t) ==
    \/ Len(t) = 2 /\ t[1] = "1" /\ t[2] \in {"0", "1", "2"}
    \/ Len(t) = 2 /\ t[1] = "0" /\ IsDigit(t[2]) /\ t[2] # "0"
    \/ Len(t) = 1 /\ IsDigit(t[1]) /\ t[1] # "0"

\* The directive %d: 3[0-1] | [1-2]\d | 0[1-9] | [1-9] | " "[1-9]
MatchesDay(t) ==
    \/ Len(t) = 2 /\ t[1] = "3" /\ t[2] \in {"0", "1"}
    \/ Len(t) = 2 /\ t[1] \in {"1", "2"} /\ IsDigit(t[2])
    \/ Len(t) = 2 /\ t[1] \in {"0", " "} /\ IsDigit(t[2]) /\ t[2] # "0"
    \/ Len(t) = 1 /\ IsDigit(t[1]) /\ t[1] # "0"

\* The number a matched %m or %d field stands for
FieldVal(t) == IF t[1] = " " THEN Num(Tail(t)) ELSE Num(t)

\* datetime.strptime(t, '%Y-%m-%d'): <<>> is ValueError.  The text must be three
\* fields separated by "-", each matching its directive, with nothing left over, and
\* the fields must name a day of the calendar (year >= 1, day within the month).
Strptime(t) ==
    LET dashes == {i \in 1..Len(t) : t[i] = "-"}
    IN  IF Cardinality(dashes) # 2 THEN None
        ELSE LET p1 == CHOOSE i \in dashes : \A j \in dashes : i <= j
                 p2 == CHOOSE i \in dashes : \A j \in dashes : j <= i
                 ytext == SubSeq(t, 1, p1 - 1)
                 mtext == SubSeq(t, p1 + 1, p2 - 1)
                 dtext == SubSeq(t, p2 + 1, Len(t))
             IN  IF ~(MatchesYear(ytext) /\ MatchesMonth(mtext) /\ MatchesDay(dtext))
                 THEN None
                 ELSE LET y == Num(ytext)
                          m == FieldVal(mtext)
                          d == FieldVal(dtext)
                      IN  IF y < 1 \/ d > DaysInMonth(y, m) THEN None
                          ELSE Some(Date(y, m, d))

(***************************************************************************)
(* DateHelper.                                                             *)
(***************************************************************************)
\* A plausible bug: the day is not replaced.
get_begin_of_month_NoReplace(today) == IsoFormat(today)

\* get_begin_of_month, given what date.today() returned
get_begin_of_month(today) == IsoFormat(ReplaceDay1(today))

\* get_today, given what date.today() returned
get_today(today) == IsoFormat(today)

\* A plausible bug: no roll-back to the previous month on the first of a month.
get_date_range_NoRollback(start, end) == <<start, end>>

\* A plausible bug: the roll-back stops at the last day of the previous month.
get_date_range_NoReplace(start, end) ==
    IF start = end
    THEN <<IsoFormat(AddDays(Strptime(start)[1], -1)[1]), end>>
    ELSE <<start, end>>

\* A plausible bug: the roll-back is decided by the day of end_date.
get_date_range_ByEndDay(start, end) ==
    IF Strptime(end) # None /\ Strptime(end)[1].day = 1
    THEN LET end_of_month == AddDays(Strptime(start)[1], -1)
         IN  <<IsoFormat(ReplaceDay1(end_of_month[1])), end>>
    ELSE <<start, end>>

\* get_date_range from the comparison on (lines 81-85): the pair returned, or
\* <<"ValueError">>, <<"OverflowError">> for the exception that leaves it.
get_date_range(start, end) ==
    IF start = end
    THEN LET parsed == Strptime(start)
         IN  IF parsed = None THEN <<"ValueError">>
             ELSE LET end_of_month == AddDays(parsed[1], -1)
                  IN  IF end_of_month = None THEN <<"OverflowError">>
                      ELSE <<IsoFormat(ReplaceDay1(end_of_month[1])), end>>
    ELSE <<start, end>>

ClockYears == (2023..(2023 + ClockYearSpan)) \cup {2000, 2100}

ClockDates ==
    {dt \in {Date(y, m, d) : y \in ClockYears, m \in 1..12, d \in 1..31} :
        dt.day <= DaysInMonth(dt.year, dt.month)}

DateIdle ==
    /\ dpc = "idle" /\ crossed = FALSE
    /\ read_begin = None /\ read_today = None
    /\ start_date = <<>> /\ end_date = <<>> /\ date_range = <<>>

\* start_date = DateHelper.get_begin_of_month(): the first reading of the clock
GetBeginOfMonth ==
    /\ dpc = "begin"
    /\ read_begin' = Some(clock)
    /\ start_date' = get_begin_of_month(clock)
    /\ dpc' = "today"
    /\ UNCHANGED <<clock, crossed, read_today, end_date, date_range>>
    /\ UNCHANGED <<fmtVars, notifyVars>>

\* Midnight passes between the two readings of the clock.
Midnight ==
    /\ dpc = "today"
    /\ ~crossed
    /\ AddDays(clock, 1) # None
    /\ clock' = AddDays(clock, 1)[1]
    /\ crossed' = TRUE
    /\ UNCHANGED <<dpc, read_begin, read_today, start_date, end_date, date_range>>
    /\ UNCHANGED <<fmtVars, notifyVars>>

\* end_date = DateHelper.get_today(): the second reading of the clock
GetToday ==
    /\ dpc = "today"
    /\ read_today' = Some(clock)
    /\ end_date' = get_today(clock)
    /\ dpc' = "compare"
    /\ UNCHANGED <<clock, crossed, read_begin, start_date, date_range>>
    /\ UNCHANGED <<fmtVars, notifyVars>>

\* The comparison and the return of get_date_range
GetDateRangeReturn ==
    /\ dpc = "compare"
    /\ date_range' = get_date_range(start_date, end_date)
    /\ dpc' = IF Len(get_date_range(start_date, end_date)) = 2 THEN "returned" ELSE "raised"
    /\ UNCHANGED <<clock, crossed, read_begin, read_today, start_date, end_date>>
    /\ UNCHANGED <<fmtVars, notifyVars>>

(***************************************************************************)
(* BillingMessageFormatter.                                                *)
(***************************************************************************)
BillingInfo(s, e, a) == [start |-> s, end |-> e, amount |-> a]

\* A float is modelled by its exact value, a sign and a fraction num / den.
Number(sign, n, d) == [neg |-> sign, num |-> n, den |-> d]

RECURSIVE Pow2(_)
Pow2(k) == IF k = 0 THEN 1 ELSE 2 * Pow2(k - 1)

\* a / b rounded to the nearest integer, a tie to the even one
HalfEven(a, b) ==
    LET q == a \div b
        r == a % b
    IN  IF 2 * r > b \/ (2 * r = b /\ q % 2 = 1) THEN q + 1 ELSE q

\* A plausible bug: the digits after the third are cut off.
Round3_Truncate(x) == Number(x.neg, (x.num * 1000) \div x.den, 1000)

\* round(x, 3): the multiple of 1/1000 nearest to x, a tie to the even one; the
\* sign is kept (round(-0.0001, 3) is -0.0)
Round3(x) == Number(x.neg, HalfEven(x.num * 1000, x.den), 1000)

\* format(x, '.3f'): x rounded to three decimals, a tie to the even one, written
\* with its sign, its whole part, a point and exactly three digits
Fixed3(x) ==
    LET milli == HalfEven(x.num * 1000, x.den)
    IN  (IF x.neg THEN <<"-">> ELSE <<>>)
            \o Dec(milli \div 1000) \o <<".">> \o Pad(milli % 1000, 3)

\* The literal text of the template (line 166)
Wave == <<"U+FF5E">>

Phrase == <<"U+306E", "U+8ACB", "U+6C42", "U+984D", "U+306F", "U+3001">>

Suffix == <<" ", "U", "S", "D", "U+3067", "U+3059", "U+3002">>

\* The body of the try of format (lines 161-166): <<"ok", text>>, or
\* <<"raise", e>> for the exception e it raises (the ValueError of strptime, the
\* OverflowError of the subtraction of a day from 0001-01-01)
format_try(info) ==
    LET start == Strptime(info.start)
        end_today == Strptime(info.end)
    IN  IF start = None \/ end_today = None THEN <<"raise", "ValueError">>
        ELSE LET end_yesterday == AddDays(end_today[1], -1)
                 total == Round3(info.amount)
             IN  IF end_yesterday = None THEN <<"raise", "OverflowError">>
                 ELSE <<"ok", StrftimeMD(start[1]) \o Wave \o StrftimeMD(end_yesterday[1])
                                  \o Phrase \o Fixed3(total) \o Suffix>>

\* A plausible bug: the end is displayed as it is, not as the day before it.
format_NoDayBefore(info) ==
    IF Strptime(info.start) = None \/ Strptime(info.end) = None THEN <<>>
    ELSE StrftimeMD(Strptime(info.start)[1]) \o Wave \o StrftimeMD(Strptime(info.end)[1])
             \o Phrase \o Fixed3(Round3(info.amount)) \o Suffix

\* A plausible bug: the except clause catches ValueError only.
format_CatchValueError(info) ==
    IF format_try(info)[1] = "ok" THEN format_try(info)[2]
    ELSE IF format_try(info)[2] = "ValueError" THEN <<>>
    ELSE <<"raise">>

\* format(billing_info) (lines 159-169): the message, or the empty text when the
\* try raised any exception.  <<"raise">> would be an exception that leaves
\* format; "except Exception" lets none leave.
format(info) ==
    IF format_try(info)[1] = "ok" THEN format_try(info)[2] ELSE <<>>

\* Texts that are not dates, and dates not written as YYYY-MM-DD
InvalidDateText == <<"i", "n", "v", "a", "l", "i", "d", "-", "d", "a", "t", "e">>

MalformedTexts ==
    {InvalidDateText, <<>>, <<"2", "0", "2", "5", "-", "1", "1", "-", "2", "2", "x">>,
     <<"2", "0", "2", "5", "-", "0", "2", "-", "3", "0">>,
     <<"2", "0", "2", "5", "-", "1", "3", "-", "0", "1">>,
     <<"0", "0", "0", "0", "-", "0", "1", "-", "0", "1">>}

LooseTexts ==
    {<<"2", "0", "2", "5", "-", "1", "-", "5">>, <<"2", "0", "2", "5", "-", "1", "1", "-", " ", "5">>}

FormatYears == 2024..(2024 + FormatYearSpan)

\* The dates given to the formatter as end: the first, second and last day of
\* every month of FormatYears, the March firsts of the century years, and the
\* first and last days the library can represent.
EndDates ==
    {Date(y, m, d) : y \in FormatYears, m \in 1..12, d \in 1..2}
    \cup {Date(y, m, DaysInMonth(y, m)) : y \in FormatYears, m \in 1..12}
    \cup {Date(2000, 3, 1), Date(2100, 3, 1), Date(1, 1, 1), Date(1, 1, 2),
          Date(9999, 12, 31)}

StartDates ==
    {Date(2025, 11, 1), Date(2024, 12, 1), Date(2024, 2, 29), Date(1, 1, 1)}

StartTexts == {IsoFormat(dt) : dt \in StartDates} \cup {InvalidDateText, <<"2", "0", "2", "5", "-", "0", "2", "-", "3", "0">>}

EndTexts == {IsoFormat(dt) : dt \in EndDates} \cup MalformedTexts \cup LooseTexts

Den == Pow2(FracBits)

\* The amounts: whole parts 0 .. MaxWhole and 99, each with the fractions 0, the
\* smallest one, the ties 0.0625 and 0.1875, the neighbours of 0.5, and the largest
\* one (which rounds up into the whole part), of either sign.
Amounts ==
    {Number(sign, w * Den + f, Den) :
        sign \in BOOLEAN,
        w \in (0..MaxWhole) \cup {99},
        f \in {0, 1, Den \div 16, 3 * (Den \div 16), (Den \div 2) - 1, Den \div 2,
               (Den \div 2) + 1, Den - 1}}

FormatInputs ==
    {BillingInfo(s, e, a) : s \in StartTexts, e \in EndTexts, a \in Amounts}

\* message = formatter.format(billing_info), for any billing_info
Format ==
    /\ fpc = "call"
    /\ IF format(fmt_input[1]) = <<"raise">>
       THEN fpc' = "raised" /\ fmt_output' = fmt_output
       ELSE fpc' = "done" /\ fmt_output' = format(fmt_input[1])
    /\ UNCHANGED fmt_input
    /\ UNCHANGED <<dateVars, notifyVars>>

(***************************************************************************)
(* LineNotifier and CostNotificationService.                               *)
(***************************************************************************)
LineCredentials(c, t) == [channel_id |-> c, access_token |-> t]

\* What requests.post and response.json() can do in send: answer with status 200,
\* answer with another status, raise a requests.exceptions.RequestException (a
\* connection error, a timeout), or raise an exception of another class (a
\* ValueError of response.json() under a requests older than 2.27, a TypeError of
\* json.dumps).
HttpOutcomes == {"status_200", "status_other", "RequestException", "OtherException"}

\* A plausible bug: the RequestException is not caught.
LineNotifier_send_NoCatch(creds, outcome) ==
    IF creds = None THEN <<"raise">>
    ELSE IF outcome = "status_200" THEN <<"return", TRUE>>
    ELSE IF outcome = "status_other" THEN <<"return", FALSE>>
    ELSE <<"raise">>

\* LineNotifier(credentials).send(message): <<"return", b>> or, for an exception
\* that leaves it, <<"raise">>.  Credentials of None raise an AttributeError on the
\* first line of the try, which the except clause does not catch.
LineNotifier_send(creds, outcome) ==
    IF creds = None THEN <<"raise">>
    ELSE IF outcome = "status_200" THEN <<"return", TRUE>>
    ELSE IF outcome = "status_other" THEN <<"return", FALSE>>
    ELSE IF outcome = "RequestException" THEN <<"return", FALSE>>
    ELSE <<"raise">>

\* What get_billing_info can return besides None: what the response held
NotifyBillingInfos ==
    {BillingInfo(s, e, a) :
        s \in {IsoFormat(Date(2025, 11, 1)), IsoFormat(Date(2024, 12, 1)), InvalidDateText},
        e \in {IsoFormat(Date(2025, 11, 22)), IsoFormat(Date(2025, 1, 1)),
               IsoFormat(Date(1, 1, 1))},
        a \in {x \in Amounts : x.num \in {0, 99 * Den + Den - 1}}}

NotifyCredentials == {LineCredentials("test_channel", "test_token")}

\* billing_info = self.cost_calculator.get_billing_info() and its check
\* (lines 218-222); get_billing_info returns None on any exception
GetBillingInfo ==
    /\ pc = "billing"
    /\ \E r \in {None} \cup {Some(info) : info \in NotifyBillingInfos} :
        /\ billing_info' = r
        /\ calls' = Append(calls, "get_billing_info")
        /\ IF r = None
           THEN pc' = "returned" /\ result' = Some(FALSE)
           ELSE pc' = "format" /\ result' = result
    /\ UNCHANGED <<message, credentials, http, success>>
    /\ UNCHANGED <<dateVars, fmtVars>>

\* A plausible bug: the empty message is not checked.
FormatMessage_NoCheck ==
    /\ pc = "format"
    /\ message' = format(billing_info[1])
    /\ calls' = Append(calls, "format")
    /\ pc' = "credentials"
    /\ UNCHANGED <<billing_info, credentials, http, success, result>>
    /\ UNCHANGED <<dateVars, fmtVars>>

\* message = self.message_formatter.format(billing_info) and its check
\* (lines 224-228)
FormatMessage ==
    /\ pc = "format"
    /\ calls' = Append(calls, "format")
    /\ IF format(billing_info[1]) = <<"raise">>
       THEN pc' = "raised" /\ message' = message /\ result' = result
       ELSE /\ message' = format(billing_info[1])
            /\ IF format(billing_info[1]) = <<>>
               THEN pc' = "returned" /\ result' = Some(FALSE)
               ELSE pc' = "credentials" /\ result' = result
    /\ UNCHANGED <<billing_info, credentials, http, success>>
    /\ UNCHANGED <<dateVars, fmtVars>>

\* A plausible bug: the missing credentials are not checked.
GetCredentials_NoCheck ==
    /\ pc = "credentials"
    /\ \E c \in {None} \cup {Some(x) : x \in NotifyCredentials} :
        /\ credentials' = c
        /\ calls' = Append(calls, "get_credentials")
        /\ pc' = "send"
    /\ UNCHANGED <<billing_info, message, http, success, result>>
    /\ UNCHANGED <<dateVars, fmtVars>>

\* credentials = self.token_repository.get_credentials() and its check
\* (lines 230-233)
GetCredentials ==
    /\ pc = "credentials"
    /\ \E c \in {None} \cup {Some(x) : x \in NotifyCredentials} :
        /\ credentials' = c
        /\ calls' = Append(calls, "get_credentials")
        /\ IF c = None
           THEN pc' = "returned" /\ result' = Some(FALSE)
           ELSE pc' = "send" /\ result' = result
    /\ UNCHANGED <<billing_info, message, http, success>>
    /\ UNCHANGED <<dateVars, fmtVars>>

\* notifier = LineNotifier(credentials); success = notifier.send(message);
\* return success (lines 235-238).  notify has no try: an exception that leaves
\* send leaves notify.
Send ==
    /\ pc = "send"
    /\ \E outcome \in HttpOutcomes :
        /\ http' = outcome
        /\ calls' = Append(calls, "send")
        /\ IF LineNotifier_send(credentials, outcome) = <<"raise">>
           THEN pc' = "raised" /\ success' = success /\ result' = result
           ELSE /\ pc' = "returned"
                /\ success' = Some(LineNotifier_send(credentials, outcome)[2])
                /\ result' = Some(LineNotifier_send(credentials, outcome)[2])
    /\ UNCHANGED <<billing_info, message, credentials>>
    /\ UNCHANGED <<dateVars, fmtVars>>

InitDate ==
    /\ clock \in ClockDates
    /\ crossed = FALSE
    /\ dpc = "begin"
    /\ read_begin = None /\ read_today = None
    /\ start_date = <<>> /\ end_date = <<>> /\ date_range = <<>>
    /\ fpc = "idle" /\ fmt_input = None /\ fmt_output = <<>>
    /\ pc = "idle" /\ billing_info = None /\ message = <<>> /\ credentials = None
    /\ http = "none" /\ success = None /\ result = None /\ calls = <<>>

NextDate ==
    \/ GetBeginOfMonth
    \/ Midnight
    \/ GetToday
    \/ GetDateRangeReturn

SpecDate == InitDate /\ [][NextDate]_vars

InitFormat ==
    /\ fmt_input \in {Some(info) : info \in FormatInputs}
    /\ fpc = "call"
    /\ fmt_output = <<>>
    /\ clock = Date(2025, 11, 21) /\ DateIdle
    /\ pc = "idle" /\ billing_info = None /\ message = <<>> /\ credentials = None
    /\ http = "none" /\ success = None /\ result = None /\ calls = <<>>

NextFormat == Format

SpecFormat == InitFormat /\ [][NextFormat]_vars

\* service.notify() is called (lambda_handler, line 252)
Init ==
    /\ pc = "billing"
    /\ billing_info = None /\ message = <<>> /\ credentials = None
    /\ http = "none" /\ success = None /\ result = None /\ calls = <<>>
    /\ clock = Date(2025, 11, 21) /\ DateIdle
    /\ fpc = "idle" /\ fmt_input = None /\ fmt_output = <<>>

Next ==
    \/ GetBillingInfo
    \/ FormatMessage
    \/ GetCredentials
    \/ Send

Spec == Init /\ [][Next]_vars

(***************************************************************************)
(* What the specification says of the date range, stated by the calendar   *)
(* and not by the library's arithmetic.                                    *)
(***************************************************************************)
\* The text YYYY-MM-DD of a date, character by character
YMD(dt) ==
    <<DigitChars[((dt.year \div 1000) % 10) + 1], DigitChars[((dt.year \div 100) % 10) + 1],
      DigitChars[((dt.year \div 10) % 10) + 1], DigitChars[(dt.year % 10) + 1], "-",
      DigitChars[(dt.month \div 10) + 1], DigitChars[(dt.month % 10) + 1], "-",
      DigitChars[(dt.day \div 10) + 1], DigitChars[(dt.day % 10) + 1]>>

\* The calendar day before a date
DayBefore(dt) ==
    IF dt.day > 1 THEN Date(dt.year, dt.month, dt.day - 1)
    ELSE IF dt.month > 1
         THEN Date(dt.year, dt.month - 1,
                   IF dt.month - 1 = 2
                   THEN (IF dt.year % 4 = 0 /\ (dt.year % 100 # 0 \/ dt.year % 400 = 0)
                         THEN 29 ELSE 28)
                   ELSE IF dt.month - 1 \in {4, 6, 9, 11} THEN 30 ELSE 31)
         ELSE Date(dt.year - 1, 12, 31)

FirstOfMonth(dt) == Date(dt.year, dt.month, 1)

\* dt1 is an earlier day than dt2
Earlier(dt1, dt2) ==
    \/ dt1.year < dt2.year
    \/ dt1.year = dt2.year /\ dt1.month < dt2.month
    \/ dt1.year = dt2.year /\ dt1.month = dt2.month /\ dt1.day < dt2.day

\* The months of dt1 and dt2 are the same, or dt1's is the one just before dt2's
SameOrPreviousMonth(dt1, dt2) ==
    \/ dt1.year = dt2.year /\ dt1.month = dt2.month
    \/ dt1.year = dt2.year /\ dt1.month + 1 = dt2.month
    \/ dt1.year + 1 = dt2.year /\ dt1.month = 12 /\ dt2.month = 1

\* The range section 8 of the specification gives for the single date dt
SpecifiedRange(dt) ==
    IF dt.day = 1
    THEN <<YMD(FirstOfMonth(DayBefore(dt))), YMD(dt)>>
    ELSE <<YMD(FirstOfMonth(dt)), YMD(dt)>>

\* C3: whenever get_date_range has returned and the current date (the date its
\* get_today read) is not the first of a month, the pair returned is the text
\* YYYY-MM-DD of the first day of that date's month and of that date.
C3_NotFirstDay ==
    (dpc = "returned" /\ read_today[1].day # 1)
        => date_range = <<YMD(FirstOfMonth(read_today[1])), YMD(read_today[1])>>

\* C3's case: the last day of a leap February, with the range returned.
C3_Witness ==
    /\ dpc = "returned"
    /\ read_today = Some(Date(2024, 2, 29))
    /\ date_range = <<<<"2", "0", "2", "4", "-", "0", "2", "-", "0", "1">>,
                      <<"2", "0", "2", "4", "-", "0", "2", "-", "2", "9">>>>

\* C4: whenever get_date_range has returned and the current date is the first of
\* a month, the start returned is the first day of the month of the day before it
\* (the previous calendar month) and the end returned is the current date.
C4_FirstDay ==
    (dpc = "returned" /\ read_today[1].day = 1)
        => /\ date_range[1] = YMD(FirstOfMonth(DayBefore(read_today[1])))
           /\ date_range[2] = YMD(read_today[1])

\* C4's case: the first of January, read by both readings of the clock, whose
\* range starts in December of the year before.
C4_Witness ==
    /\ dpc = "returned"
    /\ ~crossed
    /\ read_today = Some(Date(2025, 1, 1))
    /\ date_range = <<<<"2", "0", "2", "4", "-", "1", "2", "-", "0", "1">>,
                      <<"2", "0", "2", "5", "-", "0", "1", "-", "0", "1">>>>

\* C9: whenever get_date_range has returned, both texts returned are dates, the
\* start is strictly earlier than the end, the start is the first day of a month,
\* and the start's month is the end's month or the month just before it.
C9_StartBeforeEnd ==
    dpc = "returned"
        => /\ Strptime(date_range[1]) # None
           /\ Strptime(date_range[2]) # None
           /\ Earlier(Strptime(date_range[1])[1], Strptime(date_range[2])[1])
           /\ Strptime(date_range[1])[1].day = 1
           /\ SameOrPreviousMonth(Strptime(date_range[1])[1], Strptime(date_range[2])[1])

\* C9's case: a range that starts in the month before its end, a whole 29-day month.
C9_Witness ==
    /\ dpc = "returned"
    /\ Strptime(date_range[1]) = Some(Date(2024, 2, 1))
    /\ Strptime(date_range[2]) = Some(Date(2024, 3, 1))

\* C10: get_date_range reads the clock in get_begin_of_month and then in
\* get_today; when midnight passed between the two readings, the pair returned
\* is the range specified for the single date of the second reading.
C10_SingleToday ==
    (dpc = "returned" /\ crossed)
        => /\ read_begin # None
           /\ AddDays(read_begin[1], 1) = read_today
           /\ date_range = SpecifiedRange(read_today[1])

\* C10's case: midnight of New Year's Eve passed between the two readings.
C10_Witness ==
    /\ dpc = "returned"
    /\ crossed
    /\ read_begin = Some(Date(2024, 12, 31))
    /\ read_today = Some(Date(2025, 1, 1))
    /\ date_range[1] = <<"2", "0", "2", "4", "-", "1", "2", "-", "0", "1">>

(***************************************************************************)
(* What the specification says of the formatter.                           *)
(***************************************************************************)
\* The text is a date written as YYYY-MM-DD
IsYMDText(t) == Strptime(t) # None /\ YMD(Strptime(t)[1]) = t

\* The text MM/DD of a date, character by character
MD(dt) ==
    <<DigitChars[(dt.month \div 10) + 1], DigitChars[(dt.month % 10) + 1], "/",
      DigitChars[(dt.day \div 10) + 1], DigitChars[(dt.day % 10) + 1]>>

\* The message is the template filled with the two displayed dates and some amount
HasTemplate(msg, from, to) ==
    /\ Len(msg) > 24
    /\ SubSeq(msg, 1, 17) =
           from \o <<"U+FF5E">> \o to
               \o <<"U+306E", "U+8ACB", "U+6C42", "U+984D", "U+306F", "U+3001">>
    /\ SubSeq(msg, Len(msg) - 6, Len(msg)) =
           <<" ", "U", "S", "D", "U+3067", "U+3059", "U+3002">>

\* The amount written in a message
AmountText(msg) == SubSeq(msg, 18, Len(msg) - 7)

\* C5: for every billing info whose start and end are dates written as
\* YYYY-MM-DD, format returns the template showing the month and day of start and
\* the month and day of the calendar day before end.
C5_DayBeforeEnd ==
    (fpc \in {"done", "raised"} /\ IsYMDText(fmt_input[1].start) /\ IsYMDText(fmt_input[1].end))
        => HasTemplate(fmt_output, MD(Strptime(fmt_input[1].start)[1]),
                       MD(DayBefore(Strptime(fmt_input[1].end)[1])))

\* C5, amended: for every billing info whose start and end are dates written as
\* YYYY-MM-DD and whose end is not 0001-01-01 (the first day the library can
\* represent), format returns the template showing the month and day of start and
\* the month and day of the calendar day before end.
FormatShowsDayBeforeEnd ==
    (/\ fpc \in {"done", "raised"}
     /\ IsYMDText(fmt_input[1].start) /\ IsYMDText(fmt_input[1].end)
     /\ fmt_input[1].end # <<"0", "0", "0", "1", "-", "0", "1", "-", "0", "1">>)
        => HasTemplate(fmt_output, MD(Strptime(fmt_input[1].start)[1]),
                       MD(DayBefore(Strptime(fmt_input[1].end)[1])))

\* C5's case at the year boundary: an end of 2025-01-01 is displayed as 12/31.
FormatShowsDayBeforeEnd_Witness ==
    /\ fpc = "done"
    /\ fmt_input[1].start = <<"2", "0", "2", "4", "-", "1", "2", "-", "0", "1">>
    /\ fmt_input[1].end = <<"2", "0", "2", "5", "-", "0", "1", "-", "0", "1">>
    /\ SubSeq(fmt_output, 1, 11) =
           <<"1", "2", "/", "0", "1", "U+FF5E", "1", "2", "/", "3", "1">>

\* C6: format never raises; it returns the empty text when start or end is not the
\* text of a day of the calendar, and never returns the empty text when both are.
C6_EmptyIffUnparseable ==
    fpc \in {"done", "raised"}
        => /\ fpc = "done"
           /\ fmt_output = <<>>
                  <=> (Strptime(fmt_input[1].start) = None \/ Strptime(fmt_input[1].end) = None)

\* C6, amended: format never raises; it returns the empty text when start or end
\* is not the text of a day of the calendar, and also when end is 0001-01-01; on
\* every other input it returns a message, never the empty text.
FormatEmptyIffNoDayBefore ==
    fpc \in {"done", "raised"}
        => /\ fpc = "done"
           /\ fmt_output = <<>>
                  <=> \/ Strptime(fmt_input[1].start) = None
                      \/ Strptime(fmt_input[1].end) = None
                      \/ Strptime(fmt_input[1].end) = Some(Date(1, 1, 1))

\* C6's case in the tests: a start of "invalid-date" gives the empty text.
FormatEmptyIffNoDayBefore_Witness ==
    /\ fpc = "done"
    /\ fmt_input[1].start = InvalidDateText
    /\ fmt_input[1].end = <<"2", "0", "2", "5", "-", "0", "1", "-", "0", "1">>
    /\ fmt_output = <<>>

\* C7: in every message the amount is written as an optional sign, the digits of
\* the whole part, a point and exactly three digits, and the number written is the
\* multiple of 1/1000 nearest to the amount (so a fraction of 0.9995 or more is
\* carried into the whole part).
C7_ThreeDecimals ==
    (fpc = "done" /\ fmt_output # <<>>)
        => LET t == AmountText(fmt_output)
               body == IF t[1] = "-" THEN Tail(t) ELSE t
               k == Len(body)
               amount == fmt_input[1].amount
           IN  /\ k >= 5
               /\ body[k - 3] = "."
               /\ \A i \in (1..(k - 4)) \cup ((k - 2)..k) : IsDigit(body[i])
               /\ (t[1] = "-") = amount.neg
               /\ LET milli == Num(SubSeq(body, 1, k - 4)) * 1000 + Num(SubSeq(body, k - 2, k))
                      diff == milli * amount.den - amount.num * 1000
                  IN  2 * diff <= amount.den /\ 2 * (0 - diff) <= amount.den

\* C7's case: an amount just below 100 (99 and the largest fraction) is written
\* as 100.000.
C7_Witness ==
    /\ fpc = "done"
    /\ fmt_input[1].amount = Number(FALSE, 99 * Den + Den - 1, Den)
    /\ fmt_output # <<>>
    /\ AmountText(fmt_output) = <<"1", "0", "0", ".", "0", "0", "0">>

(***************************************************************************)
(* What the specification says of notify.                                  *)
(***************************************************************************)
Called(name) == \E i \in 1..Len(calls) : calls[i] = name

Times(name) == Cardinality({i \in 1..Len(calls) : calls[i] = name})

NotifyEnded == pc \in {"returned", "raised"}

\* A step was taken and yielded nothing
SomethingAbsent ==
    \/ Called("get_billing_info") /\ billing_info = None
    \/ Called("format") /\ message = <<>>
    \/ Called("get_credentials") /\ credentials = None

AllThreeSucceeded ==
    /\ Called("get_billing_info") /\ billing_info # None
    /\ Called("format") /\ message # <<>>
    /\ Called("get_credentials") /\ credentials # None

\* C1: when notify has ended, if the billing fetch, the formatting or the
\* credential fetch yielded nothing then notify returned False and send was never
\* called; and if notify returned after all three succeeded, send was called and
\* what notify returned is what send returned.
C1_NotifyResult ==
    NotifyEnded
        => /\ SomethingAbsent
               => (pc = "returned" /\ result = Some(FALSE) /\ ~Called("send"))
           /\ (pc = "returned" /\ ~SomethingAbsent)
               => (AllThreeSucceeded /\ Called("send") /\ success # None /\ result = success)

\* C1's case: billing info and message were there, the credentials were not.
C1_Witness ==
    /\ pc = "returned"
    /\ billing_info # None /\ message # <<>>
    /\ Called("get_credentials") /\ credentials = None
    /\ result = Some(FALSE)

\* C2: at every moment the calls made so far are the beginning of the sequence
\* billing fetch, format, credential fetch, send (so each is made at most once and
\* in that order), and a call was made only if every call before it succeeded.
C2_OrderAndShortCircuit ==
    /\ Len(calls) <= 4
    /\ calls = SubSeq(<<"get_billing_info", "format", "get_credentials", "send">>,
                      1, Len(calls))
    /\ Called("format") => billing_info # None
    /\ Called("get_credentials") => (billing_info # None /\ message # <<>>)
    /\ Called("send") => (billing_info # None /\ message # <<>> /\ credentials # None)

\* C2's case: the formatter returned the empty text and the run ended without a
\* credential fetch.
C2_Witness ==
    /\ pc = "returned"
    /\ message = <<>>
    /\ calls = <<"get_billing_info", "format">>

\* C8: when the send failed, by a status other than 200 or by a transport error
\* (RequestException), notify has returned False after exactly one call of send,
\* and no exception left notify.
C8_DeliveryFailure ==
    http \in {"status_other", "RequestException"}
        => (pc = "returned" /\ result = Some(FALSE) /\ Times("send") = 1)

\* C8's case: the transport raised and notify returned False.
C8_Witness ==
    /\ http = "RequestException"
    /\ pc = "returned"
    /\ result = Some(FALSE)
    /\ Times("send") = 1

====
